---- MODULE Spec2Model ----
(***************************************************************************)
(* A model of src/main.py: the GitHub repository analyzer.                 *)
(*                                                                         *)
(* Python strings are modelled as sequences of Unicode code points, so     *)
(* that concatenation, comparison, prefix tests and the decoders are       *)
(* computed as Python computes them.  A Python dict is modelled as the     *)
(* sequence of its <<key, value>> pairs in insertion order.                *)
(***************************************************************************)
EXTENDS Integers, Sequences, FiniteSets, TLC

(***************************************************************************)
(* String literals of the source (code points).                            *)
(***************************************************************************)
\* "Non-text content or unexpected format."
NonTextMarker ==
    <<78, 111, 110, 45, 116, 101, 120, 116, 32, 99, 111, 110, 116, 101, 110,
      116, 32, 111, 114, 32, 117, 110, 101, 120, 112, 101, 99, 116, 101, 100,
      32, 102, 111, 114, 109, 97, 116, 46>>

\* "Error decoding content (possibly binary file)."
DecodeErrorMarker ==
    <<69, 114, 114, 111, 114, 32, 100, 101, 99, 111, 100, 105, 110, 103, 32,
      99, 111, 110, 116, 101, 110, 116, 32, 40, 112, 111, 115, 115, 105, 98,
      108, 121, 32, 98, 105, 110, 97, 114, 121, 32, 102, 105, 108, 101, 41,
      46>>

\* "Error reading file: "
ErrorReadingPrefix ==
    <<69, 114, 114, 111, 114, 32, 114, 101, 97, 100, 105, 110, 103, 32, 102,
      105, 108, 101, 58, 32>>

\* '└── ' and '├── '
LastConnector == <<9492, 9472, 9472, 32>>
MidConnector == <<9500, 9472, 9472, 32>>

\* '    ' and '│   '
LastIndent == <<32, 32, 32, 32>>
MidIndent == <<9474, 32, 32, 32>>

\* "# Repository Structure\n\n"
StructureHeader ==
    <<35, 32, 82, 101, 112, 111, 115, 105, 116, 111, 114, 121, 32, 83, 116,
      114, 117, 99, 116, 117, 114, 101, 10, 10>>

\* "```\n" and "\n```\n\n"
FenceOpen == <<96, 96, 96, 10>>
FenceClose == <<10, 96, 96, 96, 10, 10>>

\* "# File Contents\n\n"
ContentsHeader ==
    <<35, 32, 70, 105, 108, 101, 32, 67, 111, 110, 116, 101, 110, 116, 115,
      10, 10>>

\* "## " and "\n\n"
SectionMark == <<35, 35, 32>>
BlankLine == <<10, 10>>

\* "github.com" and ".git" of the two URL patterns
GithubCom == <<103, 105, 116, 104, 117, 98, 46, 99, 111, 109>>
DotGit == <<46, 103, 105, 116>>

\* single characters
Slash == 47
Colon == 58
Dot == 46
Newline == 10
Pad == 61

(***************************************************************************)
(* Generic string and dict helpers (Python built-ins).                     *)
(***************************************************************************)
Drop(s, n) == SubSeq(s, n + 1, Len(s))

Take(s, n) == SubSeq(s, 1, n)

StartsWith(s, p) == Len(s) >= Len(p) /\ Take(s, Len(p)) = p

\* Python's str <: lexicographic by code point, a proper prefix is smaller
RECURSIVE StrLess(_, _)
StrLess(s, t) ==
    IF t = <<>> THEN FALSE
    ELSE IF s = <<>> THEN TRUE
    ELSE IF Head(s) # Head(t) THEN Head(s) < Head(t)
    ELSE StrLess(Tail(s), Tail(t))

\* sep.join(strs)
RECURSIVE Join(_, _)
Join(strs, sep) ==
    IF strs = <<>> THEN <<>>
    ELSE IF Len(strs) = 1 THEN strs[1]
    ELSE strs[1] \o sep \o Join(Tail(strs), sep)

DictKeys(d) == [i \in 1..Len(d) |-> d[i][1]]

DictHas(d, k) == \E i \in 1..Len(d) : d[i][1] = k

DictGet(d, k) == d[CHOOSE i \in 1..Len(d) : d[i][1] = k][2]

\* d[k] = v: an existing key keeps its position, a new key goes last
DictSet(d, k, v) ==
    IF DictHas(d, k)
    THEN [i \in 1..Len(d) |-> IF d[i][1] = k THEN <<k, v>> ELSE d[i]]
    ELSE Append(d, <<k, v>>)

(***************************************************************************)
(* GitHubRepoAnalyzer._parse_github_url: re.search with the two patterns,  *)
(* tried in order.  A result is [ok |-> TRUE, owner |-> .., repo |-> ..]   *)
(* (match.groups()) or [ok |-> FALSE] (the ValueError).                    *)
(***************************************************************************)
\* the longest prefix of s made of characters outside the set stop
\* (a greedy [^...]+ run)
RECURSIVE Run(_, _)
Run(s, stop) ==
    IF s = <<>> \/ Head(s) \in stop THEN <<>>
    ELSE <<Head(s)>> \o Run(Tail(s), stop)

\* github\.com SEP ([^/]+) / (REPO+) TAIL $ matched with "github.com"
\* starting at position i of url; seps are the characters SEP accepts,
\* repoStop the characters REPO excludes, tails the texts that may follow
\* the repo group up to the end of the string
MatchAt(url, i, seps, repoStop, tails) ==
    LET afterHost == Drop(url, i + Len(GithubCom) - 1)
        owner == Run(Tail(afterHost), {Slash})
        afterOwner == Drop(afterHost, 1 + Len(owner))
        repo == Run(Tail(afterOwner), repoStop)
        rest == Drop(afterOwner, 1 + Len(repo))
    IN  IF /\ i + Len(GithubCom) - 1 <= Len(url)
           /\ SubSeq(url, i, i + Len(GithubCom) - 1) = GithubCom
           /\ afterHost # <<>>
           /\ Head(afterHost) \in seps
           /\ owner # <<>>
           /\ afterOwner # <<>>
           /\ Head(afterOwner) = Slash
           /\ repo # <<>>
           /\ rest \in tails
        THEN [ok |-> TRUE, owner |-> owner, repo |-> repo]
        ELSE [ok |-> FALSE]

\* re.search: the match at the leftmost position where the pattern matches
Search(url, seps, repoStop, tails) ==
    LET hits == {i \in 1..Len(url) : MatchAt(url, i, seps, repoStop, tails).ok}
    IN  IF hits = {} THEN [ok |-> FALSE]
        ELSE MatchAt(url, CHOOSE i \in hits : \A j \in hits : i <= j,
                     seps, repoStop, tails)

\* r'github\.com[:/]([^/]+)/([^/\.]+)(?:\.git)?$'
PatternGit(url) ==
    Search(url, {Colon, Slash}, {Slash, Dot},
           {<<>>, DotGit, DotGit \o <<Newline>>})

\* r'github\.com/([^/]+)/([^/]+)/?$'
PatternWeb(url) ==
    Search(url, {Slash}, {Slash}, {<<>>, <<Slash>>, <<Slash, Newline>>})

\* a variant whose second pattern does not ask for "github.com"
parse_any_host(url) ==
    IF PatternGit(url).ok THEN PatternGit(url)
    ELSE LET owner == Run(url, {Slash})
             repo == Run(Drop(url, Len(owner) + 1), {Slash})
         IN  IF owner # <<>> /\ repo # <<>>
             THEN [ok |-> TRUE, owner |-> owner, repo |-> repo]
             ELSE [ok |-> FALSE]

parse_github_url(url) ==
    IF PatternGit(url).ok THEN PatternGit(url) ELSE PatternWeb(url)

(***************************************************************************)
(* base64.b64decode(s) of a str s, as CPython's binascii.a2b_base64 does   *)
(* it in its default non-strict mode, and bytes.decode('utf-8').           *)
(* A result is [ok |-> TRUE, val |-> ..] or [ok |-> FALSE] (an exception). *)
(***************************************************************************)
\* the 6-bit value of a base64 digit, 64 for any other character
B64Value(c) ==
    IF c >= 65 /\ c <= 90 THEN c - 65
    ELSE IF c >= 97 /\ c <= 122 THEN c - 97 + 26
    ELSE IF c >= 48 /\ c <= 57 THEN c - 48 + 52
    ELSE IF c = 43 THEN 62
    ELSE IF c = 47 THEN 63
    ELSE 64

\* the decoding loop: quad is the position in the current group of four
\* digits, left the bits not yet written, pads the run of '=' seen, out the
\* bytes written
RECURSIVE B64Loop(_, _, _, _, _)
B64Loop(s, quad, left, pads, out) ==
    IF s = <<>>
    THEN IF quad # 0 THEN [ok |-> FALSE] ELSE [ok |-> TRUE, val |-> out]
    ELSE LET c == Head(s)
             v == B64Value(c)
         IN  IF c = Pad
             THEN IF quad >= 2 /\ quad + pads + 1 >= 4
                  THEN [ok |-> TRUE, val |-> out]
                  ELSE B64Loop(Tail(s), quad, left,
                               IF quad >= 2 THEN pads + 1 ELSE pads, out)
             ELSE IF v >= 64
             THEN B64Loop(Tail(s), quad, left, pads, out)
             ELSE IF quad = 0
             THEN B64Loop(Tail(s), 1, v, 0, out)
             ELSE IF quad = 1
             THEN B64Loop(Tail(s), 2, v % 16, 0,
                          Append(out, left * 4 + v \div 16))
             ELSE IF quad = 2
             THEN B64Loop(Tail(s), 3, v % 4, 0,
                          Append(out, left * 16 + v \div 4))
             ELSE B64Loop(Tail(s), 0, 0, 0, Append(out, left * 64 + v))

\* a str argument is first encoded as ASCII: a non-ASCII character raises
b64decode(s) ==
    IF \E i \in 1..Len(s) : s[i] > 127 THEN [ok |-> FALSE]
    ELSE B64Loop(s, 0, 0, 0, <<>>)

IsCont(b) == b >= 128 /\ b <= 191

\* strict UTF-8: shortest forms only, no surrogates, at most U+10FFFF
RECURSIVE Utf8Loop(_, _)
Utf8Loop(b, out) ==
    IF b = <<>> THEN [ok |-> TRUE, val |-> out]
    ELSE LET b1 == b[1]
         IN  IF b1 < 128
             THEN Utf8Loop(Drop(b, 1), Append(out, b1))
             ELSE IF b1 >= 194 /\ b1 <= 223
             THEN IF Len(b) >= 2 /\ IsCont(b[2])
                  THEN Utf8Loop(Drop(b, 2),
                                Append(out, (b1 - 192) * 64 + (b[2] - 128)))
                  ELSE [ok |-> FALSE]
             ELSE IF b1 >= 224 /\ b1 <= 239
             THEN IF /\ Len(b) >= 3
                     /\ IsCont(b[2])
                     /\ IsCont(b[3])
                     /\ (b1 = 224 => b[2] >= 160)
                     /\ (b1 = 237 => b[2] <= 159)
                  THEN Utf8Loop(Drop(b, 3),
                                Append(out, (b1 - 224) * 4096
                                            + (b[2] - 128) * 64
                                            + (b[3] - 128)))
                  ELSE [ok |-> FALSE]
             ELSE IF b1 >= 240 /\ b1 <= 244
             THEN IF /\ Len(b) >= 4
                     /\ IsCont(b[2])
                     /\ IsCont(b[3])
                     /\ IsCont(b[4])
                     /\ (b1 = 240 => b[2] >= 144)
                     /\ (b1 = 244 => b[2] <= 143)
                  THEN Utf8Loop(Drop(b, 4),
                                Append(out, (b1 - 240) * 262144
                                            + (b[2] - 128) * 4096
                                            + (b[3] - 128) * 64
                                            + (b[4] - 128)))
                  ELSE [ok |-> FALSE]
             ELSE [ok |-> FALSE]

utf8_decode(b) == Utf8Loop(b, <<>>)

(***************************************************************************)
(* The remote side.  A response is what requests.get returns: a status     *)
(* and a body.  A body is JSON or not (json); a JSON body of a content     *)
(* call is an object that has a content field or not (has).                *)
(***************************************************************************)
\* Response.raise_for_status raises for the 4xx and 5xx statuses
RaisesForStatus(status) == status >= 400 /\ status < 600

RECURSIVE Digits(_)
Digits(n) == IF n < 10 THEN <<48 + n>> ELSE Digits(n \div 10) \o <<48 + (n % 10)>>

\* str(e) of the HTTPError of raise_for_status, "<status> Error"
HTTPErrorText(status) == Digits(status) \o <<32, 69, 114, 114, 111, 114>>

\* str(e) of the error of response.json() on a body that is not JSON,
\* "Expecting value"
JSONErrorText ==
    <<69, 120, 112, 101, 99, 116, 105, 110, 103, 32, 118, 97, 108, 117, 101>>

(***************************************************************************)
(* GitHubRepoAnalyzer.get_file_content(file_api_url), with resp the        *)
(* response the remote gives if it is asked.  The result tells whether the *)
(* call raised, the value returned or str(e), the cache after the call and *)
(* the requests the call sent (with the status of the response).           *)
(***************************************************************************)
\* a variant that takes the bytes for Latin-1 text
DecodeContentLatin1(content) ==
    LET bytes == b64decode(content)
    IN  IF ~bytes.ok THEN DecodeErrorMarker ELSE bytes.val

DecodeContent(content) ==
    LET bytes == b64decode(content)
    IN  IF ~bytes.ok THEN DecodeErrorMarker
        ELSE IF ~utf8_decode(bytes.val).ok THEN DecodeErrorMarker
        ELSE utf8_decode(bytes.val).val

\* a variant that returns the decoded text without storing it
get_file_content_unstored(cache, file_api_url, resp) ==
    IF DictHas(cache, file_api_url)
    THEN [raised |-> FALSE, val |-> DictGet(cache, file_api_url),
          cache |-> cache, requests |-> <<>>]
    ELSE LET sent == <<[kind |-> "content", target |-> file_api_url,
                        status |-> resp.status]>>
         IN  IF RaisesForStatus(resp.status)
             THEN [raised |-> TRUE, val |-> HTTPErrorText(resp.status),
                   cache |-> cache, requests |-> sent]
             ELSE IF ~resp.json
             THEN [raised |-> TRUE, val |-> JSONErrorText,
                   cache |-> cache, requests |-> sent]
             ELSE IF ~resp.has
             THEN [raised |-> FALSE, val |-> NonTextMarker,
                   cache |-> DictSet(cache, file_api_url, NonTextMarker),
                   requests |-> sent]
             ELSE [raised |-> FALSE, val |-> DecodeContent(resp.content),
                   cache |-> cache, requests |-> sent]

\* a variant that remembers the text of a remote error for the locator
get_file_content_keeps_error(cache, file_api_url, resp) ==
    IF DictHas(cache, file_api_url)
    THEN [raised |-> FALSE, val |-> DictGet(cache, file_api_url),
          cache |-> cache, requests |-> <<>>]
    ELSE LET sent == <<[kind |-> "content", target |-> file_api_url,
                        status |-> resp.status]>>
         IN  IF RaisesForStatus(resp.status)
             THEN [raised |-> TRUE, val |-> HTTPErrorText(resp.status),
                   cache |-> DictSet(cache, file_api_url,
                                     HTTPErrorText(resp.status)),
                   requests |-> sent]
             ELSE IF ~resp.json
             THEN [raised |-> TRUE, val |-> JSONErrorText,
                   cache |-> cache, requests |-> sent]
             ELSE IF ~resp.has
             THEN [raised |-> FALSE, val |-> NonTextMarker,
                   cache |-> DictSet(cache, file_api_url, NonTextMarker),
                   requests |-> sent]
             ELSE [raised |-> FALSE, val |-> DecodeContent(resp.content),
                   cache |-> DictSet(cache, file_api_url,
                                     DecodeContent(resp.content)),
                   requests |-> sent]

\* a variant that asks the remote again for a locator it has cached
get_file_content_refetch(cache, file_api_url, resp) ==
    LET sent == <<[kind |-> "content", target |-> file_api_url,
                   status |-> resp.status]>>
    IN  IF RaisesForStatus(resp.status)
        THEN [raised |-> TRUE, val |-> HTTPErrorText(resp.status),
              cache |-> cache, requests |-> sent]
        ELSE IF ~resp.json
        THEN [raised |-> TRUE, val |-> JSONErrorText,
              cache |-> cache, requests |-> sent]
        ELSE IF ~resp.has
        THEN [raised |-> FALSE, val |-> NonTextMarker,
              cache |-> DictSet(cache, file_api_url, NonTextMarker),
              requests |-> sent]
        ELSE [raised |-> FALSE, val |-> DecodeContent(resp.content),
              cache |-> DictSet(cache, file_api_url,
                                DecodeContent(resp.content)),
              requests |-> sent]

get_file_content(cache, file_api_url, resp) ==
    IF DictHas(cache, file_api_url)
    THEN [raised |-> FALSE, val |-> DictGet(cache, file_api_url),
          cache |-> cache, requests |-> <<>>]
    ELSE LET sent == <<[kind |-> "content", target |-> file_api_url,
                        status |-> resp.status]>>
         IN  IF RaisesForStatus(resp.status)
             THEN [raised |-> TRUE, val |-> HTTPErrorText(resp.status),
                   cache |-> cache, requests |-> sent]
             ELSE IF ~resp.json
             THEN [raised |-> TRUE, val |-> JSONErrorText,
                   cache |-> cache, requests |-> sent]
             ELSE IF ~resp.has
             THEN [raised |-> FALSE, val |-> NonTextMarker,
                   cache |-> DictSet(cache, file_api_url, NonTextMarker),
                   requests |-> sent]
             ELSE [raised |-> FALSE, val |-> DecodeContent(resp.content),
                   cache |-> DictSet(cache, file_api_url,
                                     DecodeContent(resp.content)),
                   requests |-> sent]

(***************************************************************************)
(* process_path's sort: sorted(items, key = (type != 'dir', name)).        *)
(* Python compares the key tuples (False < True, then the names) and its   *)
(* sort is stable.                                                         *)
(***************************************************************************)
KeyLess(x, y) ==
    IF (x.type # "dir") # (y.type # "dir") THEN x.type = "dir"
    ELSE StrLess(x.name, y.name)

\* x goes before the first element whose key is greater than x's
RECURSIVE InsertSorted(_, _)
InsertSorted(sorted, x) ==
    IF sorted = <<>> THEN <<x>>
    ELSE IF KeyLess(x, Head(sorted)) THEN <<x>> \o sorted
    ELSE <<Head(sorted)>> \o InsertSorted(Tail(sorted), x)

\* a variant that sorts by name alone
RECURSIVE InsertByName(_, _)
InsertByName(sorted, x) ==
    IF sorted = <<>> THEN <<x>>
    ELSE IF StrLess(x.name, Head(sorted).name) THEN <<x>> \o sorted
    ELSE <<Head(sorted)>> \o InsertByName(Tail(sorted), x)

RECURSIVE SortItemsByName(_)
SortItemsByName(items) ==
    IF items = <<>> THEN <<>>
    ELSE InsertByName(SortItemsByName(Take(items, Len(items) - 1)),
                      items[Len(items)])

\* a variant that keeps the order in which the remote reported the entries
SortItemsAsReported(items) == items

RECURSIVE SortItems(_)
SortItems(items) ==
    IF items = <<>> THEN <<>>
    ELSE InsertSorted(SortItems(Take(items, Len(items) - 1)), items[Len(items)])

\* a variant whose test for the last entry is off by one
ConnectorOffByOne(idx, count) ==
    IF idx = count THEN LastConnector ELSE MidConnector

\* the pieces of one loop iteration of process_path
Connector(idx, count) == IF idx = count - 1 THEN LastConnector ELSE MidConnector

FullPath(path, name) == IF path # <<>> THEN path \o <<Slash>> \o name ELSE name

StructurePath(prefix, idx, count, name) == prefix \o Connector(idx, count) \o name

\* a variant that never leaves the column of a finished directory blank
NewPrefixNoLast(prefix, idx, count) == prefix \o MidIndent

NewPrefix(prefix, idx, count) ==
    prefix \o (IF idx = count - 1 THEN LastIndent ELSE MidIndent)

(***************************************************************************)
(* save_analysis: the text written to the output file, the concatenation   *)
(* of the f.write calls.                                                   *)
(***************************************************************************)
\* a variant that writes the sections last key first
RECURSIVE WriteSectionsReversed(_)
WriteSectionsReversed(contents) ==
    IF contents = <<>> THEN <<>>
    ELSE WriteSectionsReversed(Tail(contents))
         \o SectionMark \o contents[1][1] \o BlankLine
         \o FenceOpen \o contents[1][2] \o FenceClose

RECURSIVE WriteSections(_)
WriteSections(contents) ==
    IF contents = <<>> THEN <<>>
    ELSE SectionMark \o contents[1][1] \o BlankLine
         \o FenceOpen \o contents[1][2] \o FenceClose
         \o WriteSections(Tail(contents))

save_analysis(structure, contents) ==
    StructureHeader \o FenceOpen \o Join(structure, <<Newline>>) \o FenceClose
    \o ContentsHeader \o WriteSections(contents)

(***************************************************************************)
(* main's reading of the menu choice: int(choice) of a stripped line.      *)
(***************************************************************************)
IsDigit(c) == c >= 48 /\ c <= 57

\* the texts int() accepts here: an optional sign and decimal digits
IsIntText(s) ==
    LET body == IF s # <<>> /\ Head(s) \in {43, 45} THEN Tail(s) ELSE s
    IN  body # <<>> /\ \A i \in 1..Len(body) : IsDigit(body[i])

RECURSIVE DigitsValue(_)
DigitsValue(s) ==
    IF s = <<>> THEN 0
    ELSE DigitsValue(Take(s, Len(s) - 1)) * 10 + (s[Len(s)] - 48)

IntValue(s) ==
    IF Head(s) = 45 THEN 0 - DigitsValue(Tail(s))
    ELSE IF Head(s) = 43 THEN DigitsValue(Tail(s))
    ELSE DigitsValue(s)

(***************************************************************************)
(* load_repos: the list in the history file, [] when the file is missing,  *)
(* is not JSON or holds no list.                                           *)
(***************************************************************************)
load_repos(file) == IF file.kind = "list" THEN file.repos ELSE <<>>

(***************************************************************************)
(* Bounds and inputs of the model.                                         *)
(***************************************************************************)
\* the number of runs of main a behaviour holds
MaxRuns == 2

\* the number of process_path calls the interpreter lets nest before it
\* raises RecursionError
RecursionLimit == 4

\* "git@github.com:o/r.git", "github.com/o/r.x/" (accepted by the second
\* pattern only) and "example.com/o/r" (accepted by neither)
UrlSsh ==
    <<103, 105, 116, 64, 103, 105, 116, 104, 117, 98, 46, 99, 111, 109, 58,
      111, 47, 114, 46, 103, 105, 116>>
UrlWeb ==
    <<103, 105, 116, 104, 117, 98, 46, 99, 111, 109, 47, 111, 47, 114, 46,
      120, 47>>
UrlBad == <<101, 120, 97, 109, 112, 108, 101, 46, 99, 111, 109, 47, 111, 47, 114>>

Urls == {UrlSsh, UrlWeb, UrlBad}

\* the lines the user may type when asked for a URL: a URL or nothing
UrlLines == Urls \cup {<<>>}

\* the lines the user may type at the menu: "0", "1", "2", "3", "-1", a URL
\* or nothing
MenuLines == UrlLines \cup {<<48>>, <<49>>, <<50>>, <<51>>, <<45, 49>>}

\* the history file before the first run
HistoryFiles ==
    { [kind |-> "missing", repos |-> <<>>],
      [kind |-> "corrupt", repos |-> <<>>],
      [kind |-> "list", repos |-> <<>>],
      [kind |-> "list", repos |-> <<UrlSsh, UrlWeb>>] }

Entry(name, type, url) == [name |-> name, type |-> type, url |-> url]

\* the locators "u1", "u2", ...
Locator(n) == <<117, 48 + n>>

\* names: "a", "b", "z", "ab", "y", "B", "d", "c"
NameA == <<97>>
NameB == <<98>>
NameZ == <<122>>
NameAB == <<97, 98>>
NameY == <<121>>
NameUpperB == <<66>>
NameD == <<100>>
NameC == <<99>>
NameS == <<115>>

\* a remote tree maps each directory path to its entries
\* files b, a and directory z; z holds file ab (the locator of b) and
\* directory y; y holds one file (the locator of a)
TreeNested ==
    (<<>> :> <<Entry(NameB, "file", Locator(1)),
               Entry(NameA, "file", Locator(2)),
               Entry(NameZ, "dir", Locator(7))>>)
    @@ (NameZ :> <<Entry(NameAB, "file", Locator(1)),
                   Entry(NameY, "dir", Locator(8))>>)
    @@ (NameZ \o <<Slash>> \o NameY :> <<Entry(NameA, "file", Locator(2))>>)

\* a single directory d holding two files of one locator
TreeSameLocator ==
    (<<>> :> <<Entry(NameD, "dir", Locator(7))>>)
    @@ (NameD :> <<Entry(NameUpperB, "file", Locator(1)),
                   Entry(NameA, "file", Locator(1))>>)

\* two entries of one name (a file and a symlink) and a directory c holding
\* one file
TreeSameName ==
    (<<>> :> <<Entry(NameA, "file", Locator(1)),
               Entry(NameA, "symlink", Locator(2)),
               Entry(NameC, "dir", Locator(7))>>)
    @@ (NameC :> <<Entry(NameB, "file", Locator(3))>>)

\* the path s/s/.../s of k components
RECURSIVE LoopPath(_)
LoopPath(k) ==
    IF k = 0 THEN <<>>
    ELSE IF k = 1 THEN NameS
    ELSE LoopPath(k - 1) \o <<Slash>> \o NameS

\* a directory s that contains itself: the remote answers the listing of
\* s, s/s, s/s/s, ... with the entry s again, at every depth a walk can ask
TreeSelfContained ==
    [p \in {LoopPath(k) : k \in 0..(RecursionLimit - 1)} |->
        <<Entry(NameS, "dir", Locator(7))>>]

Trees == {TreeNested, TreeSameLocator, TreeSameName, TreeSelfContained}

\* the orders in which the remote may report a listing
Perms(seq) ==
    LET n == Len(seq)
        bij == {p \in [1..n -> 1..n] : \A i, j \in 1..n : i # j => p[i] # p[j]}
    IN  {[i \in 1..n |-> seq[p[i]]] : p \in bij}

Statuses == {200, 404}

\* base64 texts: "aGk=" ("hi"), "w6k=" (e acute), "aGk" (incorrect padding),
\* "/w==" (the byte FF, not UTF-8)
B64Hi == <<97, 71, 107, 61>>
B64EAcute == <<119, 54, 107, 61>>
B64Short == <<97, 71, 107>>
B64ByteFF == <<47, 119, 61, 61>>

Response(status, json, has, content) ==
    [status |-> status, json |-> json, has |-> has, content |-> content]

\* the responses of a content call
Responses ==
    { Response(404, FALSE, FALSE, <<>>),
      Response(200, FALSE, FALSE, <<>>),
      Response(200, TRUE, FALSE, <<>>),
      Response(200, TRUE, TRUE, B64Hi),
      Response(200, TRUE, TRUE, B64EAcute),
      Response(200, TRUE, TRUE, B64Short),
      Response(200, TRUE, TRUE, B64ByteFF) }

(***************************************************************************)
(* The state.                                                              *)
(***************************************************************************)
VARIABLES
    pc,            \* where main is: "start", "select", "history",
                   \* "construct", "analyze", "walk", "save", "exit"
    outcome,       \* how the run ended, "running" before
    run,           \* the number of the run of main
    tree,          \* the remote repository tree
    histFile,      \* the history file repos.json
    histWrites,    \* save_repos calls of this run
    repos,         \* main's repos
    repo_url,      \* main's repo_url
    analyzer,      \* the analyzer's owner and repo
    content_cache, \* the analyzer's content_cache
    stack,         \* the process_path calls in progress, innermost last
    structure,     \* analyze_repo's structure
    contents,      \* analyze_repo's contents
    network,       \* the requests sent in this run, in order, each with
                   \* the status of its response
    listed,        \* the listing the last get_contents call returned
    visited,       \* history: one record per line of structure, the entry
                   \* the line is of and the requests sent before it
    calls,         \* history: one record per get_file_content call
    outFile        \* the output document written in this run

vars ==
    <<pc, outcome, run, tree, histFile, histWrites, repos, repo_url, analyzer,
      content_cache, stack, structure, contents, network, listed, visited,
      calls, outFile>>

NoAnalyzer == [owner |-> <<>>, repo |-> <<>>]

NoFile == [written |-> FALSE, text |-> <<>>]

walkVars ==
    <<content_cache, stack, structure, contents, network, listed, visited,
      calls>>

mainVars == <<run, tree, histFile, histWrites, repos, repo_url, analyzer>>

Init ==
    /\ pc = "start"
    /\ outcome = "running"
    /\ run = 1
    /\ tree \in Trees
    /\ histFile \in HistoryFiles
    /\ histWrites = 0
    /\ repos = <<>>
    /\ repo_url = <<>>
    /\ analyzer = NoAnalyzer
    /\ content_cache = <<>>
    /\ stack = <<>>
    /\ structure = <<>>
    /\ contents = <<>>
    /\ network = <<>>
    /\ listed = <<>>
    /\ visited = <<>>
    /\ calls = <<>>
    /\ outFile = NoFile

Exit(how) == pc' = "exit" /\ outcome' = how

(***************************************************************************)
(* main                                                                    *)
(***************************************************************************)
\* lines 112-128: the token check and load_repos
MainStart ==
    /\ pc = "start"
    /\ \E token \in BOOLEAN :
          IF ~token
          THEN Exit("no_token") /\ UNCHANGED repos
          ELSE /\ pc' = "select"
               /\ repos' = load_repos(histFile)
               /\ UNCHANGED outcome
    /\ UNCHANGED <<run, tree, histFile, histWrites, repo_url, analyzer,
                   outFile>>
    /\ UNCHANGED walkVars

\* lines 130-149: the URL main works on after the user typed choice and,
\* when asked for a new URL, typed; "invalid" for a number out of range
SelectedUrl(rs, choice, typed) ==
    IF rs # <<>>
    THEN IF IsIntText(choice)
         THEN IF IntValue(choice) = 0 THEN [ok |-> TRUE, url |-> typed]
              ELSE IF 1 <= IntValue(choice) /\ IntValue(choice) <= Len(rs)
              THEN [ok |-> TRUE, url |-> rs[IntValue(choice)]]
              ELSE [ok |-> FALSE, url |-> <<>>]
         ELSE [ok |-> TRUE, url |-> choice]
    ELSE [ok |-> TRUE, url |-> choice]

\* lines 130-153
SelectUrl ==
    /\ pc = "select"
    /\ \E choice \in (IF repos # <<>> THEN MenuLines ELSE UrlLines),
          typed \in UrlLines :
          LET sel == SelectedUrl(repos, choice, typed)
          IN  IF ~sel.ok
              THEN Exit("invalid_number") /\ UNCHANGED repo_url
              ELSE IF sel.url = <<>>
              THEN Exit("no_url") /\ UNCHANGED repo_url
              ELSE /\ pc' = "history"
                   /\ repo_url' = sel.url
                   /\ UNCHANGED outcome
    /\ UNCHANGED <<run, tree, histFile, histWrites, repos, analyzer, outFile>>
    /\ UNCHANGED walkVars

\* a variant of AddHistory that records only a URL the parser accepts
AddHistoryIfValid ==
    /\ pc = "history"
    /\ IF /\ \A i \in 1..Len(repos) : repos[i] # repo_url
          /\ parse_github_url(repo_url).ok
       THEN /\ repos' = Append(repos, repo_url)
            /\ histFile' = [kind |-> "list", repos |-> repos']
            /\ histWrites' = histWrites + 1
       ELSE UNCHANGED <<repos, histFile, histWrites>>
    /\ pc' = "construct"
    /\ UNCHANGED <<outcome, run, tree, repo_url, analyzer, outFile>>
    /\ UNCHANGED walkVars

\* a variant of AddHistory without the test for a URL already present
AddHistoryAlways ==
    /\ pc = "history"
    /\ repos' = Append(repos, repo_url)
    /\ histFile' = [kind |-> "list", repos |-> repos']
    /\ histWrites' = histWrites + 1
    /\ pc' = "construct"
    /\ UNCHANGED <<outcome, run, tree, repo_url, analyzer, outFile>>
    /\ UNCHANGED walkVars

\* lines 155-158: a new URL is appended and the file rewritten (save_repos)
AddHistory ==
    /\ pc = "history"
    /\ IF \A i \in 1..Len(repos) : repos[i] # repo_url
       THEN /\ repos' = Append(repos, repo_url)
            /\ histFile' = [kind |-> "list", repos |-> repos']
            /\ histWrites' = histWrites + 1
       ELSE UNCHANGED <<repos, histFile, histWrites>>
    /\ pc' = "construct"
    /\ UNCHANGED <<outcome, run, tree, repo_url, analyzer, outFile>>
    /\ UNCHANGED walkVars

\* lines 160-161 and 9-13: the analyzer is constructed outside main's try, so
\* the ValueError of an invalid URL ends the run uncaught
Construct ==
    /\ pc = "construct"
    /\ LET parsed == parse_github_url(repo_url)
       IN  IF ~parsed.ok
           THEN Exit("invalid_url") /\ UNCHANGED <<analyzer, content_cache>>
           ELSE /\ pc' = "analyze"
                /\ analyzer' = [owner |-> parsed.owner, repo |-> parsed.repo]
                /\ content_cache' = <<>>
                /\ UNCHANGED outcome
    /\ UNCHANGED <<run, tree, histFile, histWrites, repos, repo_url, outFile>>
    /\ UNCHANGED <<stack, structure, contents, network, listed, visited,
                   calls>>

(***************************************************************************)
(* analyze_repo.  A frame of the stack is one call of process_path:        *)
(* its path and prefix, whether get_contents has returned (phase "call"    *)
(* before, "loop" after), the sorted items and the loop index idx.         *)
(***************************************************************************)
Frame(path, prefix) ==
    [path |-> path, prefix |-> prefix, phase |-> "call", items |-> <<>>,
     idx |-> 0]

Top == stack[Len(stack)]

SetTop(frame) == [stack EXCEPT ![Len(stack)] = frame]

ListRequest(path, status) ==
    [kind |-> "list", target |-> path, status |-> status]

\* lines 163, 56-57 and 77: main calls analyze_repo, which calls
\* process_path('')
AnalyzeStart ==
    /\ pc = "analyze"
    /\ pc' = "walk"
    /\ structure' = <<>>
    /\ contents' = <<>>
    /\ stack' = <<Frame(<<>>, <<>>)>>
    /\ UNCHANGED <<outcome, outFile, content_cache, network, listed, visited,
                   calls>>
    /\ UNCHANGED mainVars

\* a variant of GetContents that takes a failed listing for an empty one
GetContentsLenient ==
    /\ pc = "walk"
    /\ Top.phase = "call"
    /\ \E status \in Statuses, listing \in Perms(tree[Top.path]) :
          /\ network' = Append(network, ListRequest(Top.path, status))
          /\ stack' = SetTop([Top EXCEPT
                                !.phase = "loop",
                                !.items = IF RaisesForStatus(status) THEN <<>>
                                          ELSE SortItems(listing)])
          /\ listed' = IF RaisesForStatus(status) THEN <<>> ELSE listing
    /\ UNCHANGED <<pc, outcome, outFile, content_cache, structure, contents,
                   visited, calls>>
    /\ UNCHANGED mainVars

\* lines 60-62 and 31-35: get_contents and the sort.  A failed listing
\* raises through every process_path call and analyze_repo to main's
\* except clause (lines 167-168)
GetContents ==
    /\ pc = "walk"
    /\ Top.phase = "call"
    /\ \E status \in Statuses, listing \in Perms(tree[Top.path]) :
          /\ network' = Append(network, ListRequest(Top.path, status))
          /\ IF RaisesForStatus(status)
             THEN /\ stack' = <<>>
                  /\ Exit("error")
                  /\ UNCHANGED listed
             ELSE /\ stack' = SetTop([Top EXCEPT
                                        !.phase = "loop",
                                        !.items = SortItems(listing)])
                  /\ listed' = listing
                  /\ UNCHANGED <<pc, outcome>>
    /\ UNCHANGED <<outFile, content_cache, structure, contents, visited, calls>>
    /\ UNCHANGED mainVars

Item == Top.items[Top.idx + 1]

Count == Len(Top.items)

\* the record of the entry whose line is being appended
Visit ==
    [path |-> Top.path, name |-> Item.name, type |-> Item.type,
     url |-> Item.url, idx |-> Top.idx, count |-> Count,
     depth |-> Len(stack) - 1, sent |-> Len(network)]

\* the record of a get_file_content call: the line of the entry, the
\* locator, the response when a request was sent, and the result
Call(got, resp) ==
    [line |-> Len(structure) + 1, url |-> Item.url,
     hit |-> got.requests = <<>>,
     resp |-> IF got.requests = <<>> THEN Response(0, FALSE, FALSE, <<>>)
              ELSE resp,
     raised |-> got.raised, val |-> got.val]

\* a variant that stores str(e) alone when the call raised
StoredContentBare(got) == got.val

\* lines 73-75: what is stored in contents for a file
StoredContent(got) ==
    IF got.raised THEN ErrorReadingPrefix \o got.val ELSE got.val

\* a variant of ProcessDir that puts the line of a directory first
ProcessDirPrepend ==
    /\ pc = "walk"
    /\ Top.phase = "loop"
    /\ Top.idx < Count
    /\ Item.type = "dir"
    /\ Len(stack) < RecursionLimit
    /\ structure' = <<StructurePath(Top.prefix, Top.idx, Count, Item.name)>>
                    \o structure
    /\ visited' = <<Visit>> \o visited
    /\ stack' = Append(stack, Frame(FullPath(Top.path, Item.name),
                                    NewPrefix(Top.prefix, Top.idx, Count)))
    /\ UNCHANGED <<pc, outcome, outFile, content_cache, contents, network,
                   listed, calls>>
    /\ UNCHANGED mainVars

\* a variant of ProcessDir that lists a directory entry without entering it
ProcessDirNoDescend ==
    /\ pc = "walk"
    /\ Top.phase = "loop"
    /\ Top.idx < Count
    /\ Item.type = "dir"
    /\ structure' = Append(structure,
                           StructurePath(Top.prefix, Top.idx, Count, Item.name))
    /\ visited' = Append(visited, Visit)
    /\ stack' = SetTop([Top EXCEPT !.idx = Top.idx + 1])
    /\ UNCHANGED <<pc, outcome, outFile, content_cache, contents, network,
                   listed, calls>>
    /\ UNCHANGED mainVars

\* lines 63-70 for a directory: its line, then the recursive call
ProcessDir ==
    /\ pc = "walk"
    /\ Top.phase = "loop"
    /\ Top.idx < Count
    /\ Item.type = "dir"
    /\ Len(stack) < RecursionLimit
    /\ structure' = Append(structure,
                           StructurePath(Top.prefix, Top.idx, Count, Item.name))
    /\ visited' = Append(visited, Visit)
    /\ stack' = Append(stack, Frame(FullPath(Top.path, Item.name),
                                    NewPrefix(Top.prefix, Top.idx, Count)))
    /\ UNCHANGED <<pc, outcome, outFile, content_cache, contents, network,
                   listed, calls>>
    /\ UNCHANGED mainVars

\* lines 63-70 for a directory when the interpreter allows no deeper call:
\* the line is appended, the call at line 70 raises RecursionError, which no
\* process_path frame catches; main catches it at line 167
RecursionOverflow ==
    /\ pc = "walk"
    /\ Top.phase = "loop"
    /\ Top.idx < Count
    /\ Item.type = "dir"
    /\ Len(stack) >= RecursionLimit
    /\ structure' = Append(structure,
                           StructurePath(Top.prefix, Top.idx, Count, Item.name))
    /\ visited' = Append(visited, Visit)
    /\ stack' = <<>>
    /\ Exit("error")
    /\ UNCHANGED <<outFile, content_cache, contents, network, listed, calls>>
    /\ UNCHANGED mainVars

\* a variant of ProcessFile that stores nothing for a file whose fetch raised
ProcessFileSkipFailed ==
    /\ pc = "walk"
    /\ Top.phase = "loop"
    /\ Top.idx < Count
    /\ Item.type # "dir"
    /\ structure' = Append(structure,
                           StructurePath(Top.prefix, Top.idx, Count, Item.name))
    /\ \E resp \in Responses :
          LET got == get_file_content(content_cache, Item.url, resp)
          IN  /\ contents' =
                    IF got.raised THEN contents
                    ELSE DictSet(contents, FullPath(Top.path, Item.name),
                                 StoredContent(got))
              /\ content_cache' = got.cache
              /\ network' = network \o got.requests
              /\ calls' = Append(calls, Call(got, resp))
    /\ visited' = Append(visited, Visit)
    /\ stack' = SetTop([Top EXCEPT !.idx = Top.idx + 1])
    /\ UNCHANGED <<pc, outcome, outFile, listed>>
    /\ UNCHANGED mainVars

\* lines 63-67 and 71-75 for any other entry: its line, then its content or
\* the text of the exception
ProcessFile ==
    /\ pc = "walk"
    /\ Top.phase = "loop"
    /\ Top.idx < Count
    /\ Item.type # "dir"
    /\ structure' = Append(structure,
                           StructurePath(Top.prefix, Top.idx, Count, Item.name))
    /\ \E resp \in Responses :
          LET got == get_file_content(content_cache, Item.url, resp)
          IN  /\ contents' =
                    DictSet(contents, FullPath(Top.path, Item.name),
                            StoredContent(got))
              /\ content_cache' = got.cache
              /\ network' = network \o got.requests
              /\ calls' = Append(calls, Call(got, resp))
    /\ visited' = Append(visited, Visit)
    /\ stack' = SetTop([Top EXCEPT !.idx = Top.idx + 1])
    /\ UNCHANGED <<pc, outcome, outFile, listed>>
    /\ UNCHANGED mainVars

\* the loop of a process_path call is over: the call returns to the loop of
\* its caller, the outermost one to analyze_repo, which returns (line 78)
ReturnPath ==
    /\ pc = "walk"
    /\ Top.phase = "loop"
    /\ Top.idx = Count
    /\ IF Len(stack) = 1
       THEN /\ stack' = <<>>
            /\ pc' = "save"
       ELSE /\ stack' = [i \in 1..(Len(stack) - 1) |->
                           IF i = Len(stack) - 1
                           THEN [stack[i] EXCEPT !.idx = stack[i].idx + 1]
                           ELSE stack[i]]
            /\ UNCHANGED pc
    /\ UNCHANGED <<outcome, outFile, content_cache, structure, contents,
                   network, listed, visited, calls>>
    /\ UNCHANGED mainVars

\* lines 164-166: the output document is written
SaveAnalysis ==
    /\ pc = "save"
    /\ outFile' = [written |-> TRUE, text |-> save_analysis(structure, contents)]
    /\ Exit("saved")
    /\ UNCHANGED walkVars
    /\ UNCHANGED mainVars

\* the program is started again: the history file is all that is kept (the
\* requests and the output document are recorded per run)
Restart ==
    /\ pc = "exit"
    /\ run < MaxRuns
    /\ pc' = "start"
    /\ outcome' = "running"
    /\ run' = run + 1
    /\ histWrites' = 0
    /\ repos' = <<>>
    /\ repo_url' = <<>>
    /\ analyzer' = NoAnalyzer
    /\ content_cache' = <<>>
    /\ stack' = <<>>
    /\ structure' = <<>>
    /\ contents' = <<>>
    /\ network' = <<>>
    /\ listed' = <<>>
    /\ visited' = <<>>
    /\ calls' = <<>>
    /\ outFile' = NoFile
    /\ UNCHANGED <<tree, histFile>>

Next ==
    \/ MainStart
    \/ SelectUrl
    \/ AddHistory
    \/ Construct
    \/ AnalyzeStart
    \/ GetContents
    \/ ProcessDir
    \/ RecursionOverflow
    \/ ProcessFile
    \/ ReturnPath
    \/ SaveAnalysis
    \/ Restart

Spec == Init /\ [][Next]_vars

\* the steps of analyze_repo; once called it runs on: every request is
\* answered or fails, and nothing else in the process can hold it up
Walk ==
    \/ GetContents
    \/ ProcessDir
    \/ RecursionOverflow
    \/ ProcessFile
    \/ ReturnPath

SpecFair == Spec /\ WF_vars(Walk)

(***************************************************************************)
(* Properties.                                                             *)
(***************************************************************************)
Last(s) == s[Len(s)]

IsPrefix(s, t) == Len(s) <= Len(t) /\ Take(t, Len(s)) = s

\* the number of entries of the whole tree
RECURSIVE SumLen(_, _)
SumLen(t, paths) ==
    IF paths = {} THEN 0
    ELSE LET p == CHOOSE q \in paths : TRUE
         IN  Len(t[p]) + SumLen(t, paths \ {p})

TotalEntries(t) == SumLen(t, DOMAIN t)

\* the full paths of the entries of the tree that are no directories
FilePaths(t) ==
    UNION {{FullPath(p, t[p][i].name) :
               i \in {j \in 1..Len(t[p]) : t[p][j].type # "dir"}} :
           p \in DOMAIN t}

\* the full paths of all the entries of the tree
EntryPaths(t) ==
    UNION {{FullPath(p, t[p][i].name) : i \in 1..Len(t[p])} : p \in DOMAIN t}

VisitedPath(k) == FullPath(visited[k].path, visited[k].name)

\* C1: a get_file_content call that raises stores, under the full path of the
\* file, a text starting with "Error reading file: ", and the loop goes on
\* with the next sibling; hence when the walk is over every entry of the tree
\* has its line and every file its key in contents, whatever fetches raised
C1_FetchErrorIsRecorded ==
    /\ [][(Len(calls') = Len(calls) + 1 /\ Last(calls').raised) =>
            LET v == Last(visited')
                fp == FullPath(v.path, v.name)
            IN  /\ DictHas(contents', fp)
                /\ StartsWith(DictGet(contents', fp), ErrorReadingPrefix)
                /\ pc' = "walk"
                /\ Len(stack') = Len(stack)
                /\ Last(stack').idx = v.idx + 1
                /\ Last(structure') = StructurePath(Top.prefix, v.idx, v.count,
                                                    v.name)]_vars
    /\ [](pc = "save" =>
            /\ Len(structure) = TotalEntries(tree)
            /\ {VisitedPath(k) : k \in 1..Len(visited)} = EntryPaths(tree)
            /\ {contents[i][1] : i \in 1..Len(contents)} = FilePaths(tree))

\* C1 witness: in d, the fetch of B raised and its later sibling a was
\* fetched and stored all the same
C1_Witness ==
    /\ pc = "save"
    /\ tree = TreeSameLocator
    /\ Len(calls) = 2
    /\ calls[1].raised
    /\ ~calls[2].raised
    /\ StartsWith(DictGet(contents, NameD \o <<Slash>> \o NameUpperB),
                  ErrorReadingPrefix)
    /\ DictGet(contents, NameD \o <<Slash>> \o NameA) = <<104, 105>>
    /\ Len(structure) = 3

\* C2: a listing request that fails is the last request of the run: the run
\* is over with the error caught in main, no process_path call is left, and
\* no output document is written
C2_ListingFailureAborts ==
    \A i \in 1..Len(network) :
        (network[i].kind = "list" /\ RaisesForStatus(network[i].status)) =>
            /\ i = Len(network)
            /\ pc = "exit"
            /\ outcome = "error"
            /\ stack = <<>>
            /\ ~outFile.written

\* C2 witness: the listing of z/y, two levels down, failed after lines were
\* appended and a file was fetched
C2_Witness ==
    /\ network # <<>>
    /\ Last(network) = ListRequest(NameZ \o <<Slash>> \o NameY, 404)
    /\ Len(structure) = 2
    /\ pc = "exit"
    /\ ~outFile.written

ContentRequests(url) ==
    {i \in 1..Len(network) :
        network[i].kind = "content" /\ network[i].target = url}

RaisedCalls(url) ==
    {c \in 1..Len(calls) : calls[c].url = url /\ calls[c].raised}

CallsFor(url) == {c \in 1..Len(calls) : calls[c].url = url}

\* the locators that two sibling files of the tree share
SiblingLocators(t) ==
    UNION {{t[p][i].url :
               i \in {j \in 1..Len(t[p]) :
                        /\ t[p][j].type # "dir"
                        /\ \E k \in 1..Len(t[p]) :
                              /\ k # j
                              /\ t[p][k].type # "dir"
                              /\ t[p][k].url = t[p][j].url}} :
           p \in DOMAIN t}

\* C3 as claimed: when the walk is over, exactly one request was sent for a
\* locator that two sibling files share
C3_Original ==
    pc = "save" =>
        \A url \in SiblingLocators(tree) : Cardinality(ContentRequests(url)) = 1

\* C3 amended: the requests sent for a locator are one per call that raised
\* and one more once the locator is cached; so when the first call for a
\* locator two siblings share does not raise, exactly one request is sent for
\* it and every later call is a cache hit
C3_OneRequestUnlessRaised ==
    /\ \A c \in 1..Len(calls) :
          Cardinality(ContentRequests(calls[c].url))
             = Cardinality(RaisedCalls(calls[c].url))
               + (IF DictHas(content_cache, calls[c].url) THEN 1 ELSE 0)
    /\ pc = "save" =>
          \A url \in SiblingLocators(tree) :
              LET first == CHOOSE c \in CallsFor(url) :
                              \A d \in CallsFor(url) : c <= d
              IN  ~calls[first].raised =>
                     /\ Cardinality(ContentRequests(url)) = 1
                     /\ \A d \in CallsFor(url) : d # first => calls[d].hit

\* C3 witness: both files of d were read, the second from the cache
C3_Witness ==
    /\ pc = "save"
    /\ tree = TreeSameLocator
    /\ Len(calls) = 2
    /\ ~calls[1].hit
    /\ ~calls[1].raised
    /\ calls[2].hit
    /\ Cardinality(ContentRequests(Locator(1))) = 1

IsDir(e) == e.type = "dir"

\* s and t hold the same entries, each as often
SameEntries(s, t) ==
    /\ Len(s) = Len(t)
    /\ \A e \in {s[i] : i \in 1..Len(s)} \cup {t[i] : i \in 1..Len(t)} :
          Cardinality({i \in 1..Len(s) : s[i] = e})
             = Cardinality({i \in 1..Len(t) : t[i] = e})

\* C4: the items a process_path call loops over are the entries the remote
\* reported, every directory before every other entry and, within a kind,
\* in ascending order of name; the lines are appended in that order
C4_DirectoriesFirstThenByName ==
    /\ \A f \in 1..Len(stack) :
          \A i, j \in 1..Len(stack[f].items) :
              i < j =>
                 LET x == stack[f].items[i]
                     y == stack[f].items[j]
                 IN  /\ IsDir(y) => IsDir(x)
                     /\ (IsDir(x) <=> IsDir(y)) => ~StrLess(y.name, x.name)
    /\ (stack # <<>> /\ Top.phase = "loop" /\ Top.idx = 0) =>
          SameEntries(Top.items, listed)
    /\ \A k \in 1..Len(visited) :
          \A f \in 1..Len(stack) :
              (stack[f].path = visited[k].path /\ stack[f].phase = "loop") =>
                 /\ visited[k].name = stack[f].items[visited[k].idx + 1].name
                 /\ visited[k].idx <= stack[f].idx
    /\ \A k \in 1..Len(visited) :
          \A m \in 1..Len(visited) :
              (k < m /\ visited[k].path = visited[m].path) =>
                 visited[k].idx < visited[m].idx

\* C4 witness: the remote reported b, a, z and the lines are z, a, b
C4_Witness ==
    /\ tree = TreeNested
    /\ Len(stack) = 1
    /\ Top.phase = "loop"
    /\ Top.idx = 0
    /\ [i \in 1..3 |-> listed[i].name] = <<NameB, NameA, NameZ>>
    /\ [i \in 1..3 |-> Top.items[i].name] = <<NameZ, NameA, NameB>>

\* the connector of line k: the four characters before the name
ConnectorOf(k) ==
    SubSeq(structure[k], Len(structure[k]) - Len(visited[k].name) - 3,
           Len(structure[k]) - Len(visited[k].name))

\* C5: the line of an entry holds "└── " when the entry is the last of the
\* sorted listing of its directory (a single entry is) and "├── " otherwise;
\* when the walk is over, the lines with "└── " are those no later line of
\* the same directory follows
C5_LastEntryConnector ==
    /\ Len(visited) = Len(structure)
    /\ \A k \in 1..Len(visited) :
          /\ visited[k].count = Len(tree[visited[k].path])
          /\ Len(structure[k]) = 4 * visited[k].depth + 4 + Len(visited[k].name)
          /\ ConnectorOf(k) = (IF visited[k].idx = visited[k].count - 1
                               THEN LastConnector ELSE MidConnector)
    /\ pc = "save" =>
          \A k \in 1..Len(visited) :
              (ConnectorOf(k) = LastConnector)
                 <=> ~\E m \in (k + 1)..Len(visited) :
                        visited[m].path = visited[k].path

\* C5 witness: the walk of the nested tree is over; z and a, the first two
\* of three, have "├── ", b has "└── ", and the single entry of z/y, two
\* levels down, has "└── "
C5_Witness ==
    /\ pc = "save"
    /\ tree = TreeNested
    /\ Len(structure) = 6
    /\ ConnectorOf(1) = MidConnector
    /\ ConnectorOf(5) = MidConnector
    /\ ConnectorOf(6) = LastConnector
    /\ visited[3].path = NameZ \o <<Slash>> \o NameY
    /\ visited[3].count = 1
    /\ ConnectorOf(3) = LastConnector

\* what a content field decodes to
ExpectedText(content) ==
    IF content = B64Hi THEN <<104, 105>>
    ELSE IF content = B64EAcute THEN <<233>>
    ELSE DecodeErrorMarker

\* C6: a call that sent a request and got a JSON object with a success
\* status does not raise; it returns the no-content marker, the decode-error
\* marker or the decoded text, and the cache holds that value for the locator
C6_MarkersAndDecodedText ==
    \A c \in 1..Len(calls) :
        (/\ ~calls[c].hit
         /\ ~RaisesForStatus(calls[c].resp.status)
         /\ calls[c].resp.json) =>
            /\ ~calls[c].raised
            /\ calls[c].val = (IF ~calls[c].resp.has THEN NonTextMarker
                               ELSE ExpectedText(calls[c].resp.content))
            /\ DictHas(content_cache, calls[c].url)
            /\ DictGet(content_cache, calls[c].url) = calls[c].val

\* C6 witness: three calls, one got no content field, one a content that is
\* no UTF-8, one a content that decodes to e acute
C6_Witness ==
    /\ Len(calls) = 3
    /\ ~calls[1].resp.has
    /\ calls[1].val = NonTextMarker
    /\ calls[2].resp.content = B64ByteFF
    /\ calls[2].val = DecodeErrorMarker
    /\ calls[3].resp.content = B64EAcute
    /\ calls[3].val = <<233>>
    /\ Len(content_cache) = 3

\* line m is of an entry below the directory of line k
InSubtree(m, k) ==
    \/ visited[m].path = VisitedPath(k)
    \/ StartsWith(visited[m].path, VisitedPath(k) \o <<Slash>>)

\* request i lists the directory of line k or a directory below it
ListsSubtree(i, k) ==
    /\ network[i].kind = "list"
    /\ \/ network[i].target = VisitedPath(k)
       \/ StartsWith(network[i].target, VisitedPath(k) \o <<Slash>>)

\* C7: the walk is depth-first and pre-order.  The listing of a directory is
\* requested right after its line; the lines of its subtree follow its line
\* without a line of another directory in between; the listings of its
\* subtree and the requests of its files are sent before the line of any
\* later entry; and structure only grows
C7_DepthFirstPreOrder ==
    /\ [](\A k \in 1..Len(visited) :
            /\ \A m \in 1..Len(visited) : m < k => visited[m].sent <= visited[k].sent
            /\ visited[k].type = "dir" =>
                  /\ \A i \in 1..Len(network) :
                        ListsSubtree(i, k) => i > visited[k].sent
                  /\ Len(network) > visited[k].sent =>
                        /\ network[visited[k].sent + 1].kind = "list"
                        /\ network[visited[k].sent + 1].target = VisitedPath(k)
                  /\ \A j \in 1..Len(visited) :
                        /\ j < k => ~InSubtree(j, k)
                        /\ (j > k /\ InSubtree(j, k)) =>
                              \A m \in (k + 1)..j : InSubtree(m, k)
                        /\ (j > k /\ ~InSubtree(j, k)) =>
                              \A i \in 1..Len(network) :
                                  ListsSubtree(i, k) => i <= visited[j].sent)
    /\ [](\A c \in 1..Len(calls) :
            LET k == calls[c].line
            IN  /\ k <= Len(visited)
                /\ visited[k].type # "dir"
                /\ IF calls[c].hit
                   THEN k < Len(visited) => visited[k + 1].sent = visited[k].sent
                   ELSE /\ network[visited[k].sent + 1].kind = "content"
                        /\ network[visited[k].sent + 1].target = calls[c].url
                        /\ k < Len(visited) =>
                              visited[k + 1].sent = visited[k].sent + 1)
    /\ [][run' = run => IsPrefix(structure, structure')]_vars

\* C7 witness: in the nested tree the lines are z, y, a (of z/y), ab (of z),
\* a, b and the listing of z/y was the third request
C7_Witness ==
    /\ pc = "save"
    /\ tree = TreeNested
    /\ [k \in 1..6 |-> VisitedPath(k)]
          = <<NameZ,
              NameZ \o <<Slash>> \o NameY,
              NameZ \o <<Slash>> \o NameY \o <<Slash>> \o NameA,
              NameZ \o <<Slash>> \o NameAB,
              NameA,
              NameB>>
    /\ visited[2].sent = 2
    /\ network[3].target = NameZ \o <<Slash>> \o NameY
    /\ visited[5].sent >= 4

NoDuplicate(s) == \A i, j \in 1..Len(s) : i # j => s[i] # s[j]

InList(s, x) == \E i \in 1..Len(s) : s[i] = x

\* C8: the history never holds a URL twice; the file is rewritten only for a
\* URL that is not in it, which goes last behind the URLs already there; a
\* URL that is in the history leaves list and file as they are
C8_HistoryKeepsOrderWithoutDuplicates ==
    /\ [](NoDuplicate(repos) /\ NoDuplicate(histFile.repos))
    /\ [][(histFile' # histFile \/ histWrites' > histWrites) =>
            /\ ~InList(load_repos(histFile), repo_url)
            /\ histFile'.kind = "list"
            /\ histFile'.repos = Append(load_repos(histFile), repo_url)
            /\ repos' = histFile'.repos
            /\ histWrites' = histWrites + 1]_vars
    /\ [][(pc = "history" /\ InList(repos, repo_url)) =>
            UNCHANGED <<repos, histFile, histWrites>>]_vars
    /\ [][(run' = run /\ repos # <<>>) => IsPrefix(repos, repos')]_vars

\* C8 witness: the first run appended a third URL behind the two of the
\* file, the second run chose it again and wrote nothing
C8_Witness ==
    /\ run = 2
    /\ pc = "construct"
    /\ histWrites = 0
    /\ repo_url = UrlBad
    /\ repos = <<UrlSsh, UrlWeb, UrlBad>>
    /\ histFile.repos = <<UrlSsh, UrlWeb, UrlBad>>

\* the URLs of the model that a pattern accepts
AcceptedUrls == {UrlSsh, UrlWeb}

\* C9: with a URL neither pattern accepts ("example.com/o/r") the run ends
\* in the construction of the analyzer: no analyzer, no request, no document
C9_InvalidUrlAbortsBeforeRequests ==
    /\ (repo_url # <<>> /\ repo_url \notin AcceptedUrls) =>
          /\ pc \in {"history", "construct", "exit"}
          /\ pc = "exit" => outcome = "invalid_url"
          /\ analyzer = NoAnalyzer
          /\ network = <<>>
          /\ stack = <<>>
          /\ ~outFile.written
    /\ outcome = "invalid_url" =>
          (repo_url # <<>> /\ repo_url \notin AcceptedUrls)

\* C9 witness: the run ended on the invalid URL
C9_Witness ==
    /\ pc = "exit"
    /\ outcome = "invalid_url"
    /\ repo_url = UrlBad
    /\ network = <<>>

RECURSIVE Flatten(_)
Flatten(chunks) ==
    IF chunks = <<>> THEN <<>> ELSE Head(chunks) \o Flatten(Tail(chunks))

\* the lines, each but the first behind a newline
JoinedLines(lines) ==
    Flatten([i \in 1..Len(lines) |->
                IF i = 1 THEN lines[i] ELSE <<Newline>> \o lines[i]])

\* the document as its pieces: five for the structure, then four per key of
\* contents, in the order of the keys
DocumentPieces(lines, dict) ==
    <<StructureHeader, FenceOpen, JoinedLines(lines), FenceClose,
      ContentsHeader>>
    \o [i \in 1..(4 * Len(dict)) |->
          LET pair == dict[(i - 1) \div 4 + 1]
              piece == (i - 1) % 4
          IN  IF piece = 0 THEN SectionMark \o pair[1] \o BlankLine
              ELSE IF piece = 1 THEN FenceOpen
              ELSE IF piece = 2 THEN pair[2]
              ELSE FenceClose]

\* C10: the document written is the structure header, the fenced lines
\* joined by newlines, the contents header and one section per key of
\* contents in insertion order, a heading of the path and the fenced content
C10_DocumentLayout ==
    outFile.written =>
        outFile.text = Flatten(DocumentPieces(structure, contents))

\* C10 witness: a document of six lines and four sections was written
C10_Witness ==
    /\ outFile.written
    /\ Len(structure) = 6
    /\ Len(contents) = 4
    /\ contents[1][1] = NameZ \o <<Slash>> \o NameY \o <<Slash>> \o NameA
    /\ contents[1][2] # contents[2][2]


\* the records of the directories above the entry of line k
Ancestors(k) ==
    {m \in 1..Len(visited) :
        /\ m < k
        /\ visited[m].type = "dir"
        /\ \/ VisitedPath(m) = visited[k].path
           \/ StartsWith(visited[k].path, VisitedPath(m) \o <<Slash>>)}

\* the j-th four-character segment of a line
Segment(line, j) == Take(Drop(line, 4 * (j - 1)), 4)

\* C11: the line of an entry at depth d starts with d four-character
\* segments followed by its connector and its name; the segment of the
\* ancestor directory at depth j-1 is four spaces when that directory was
\* the last entry of its listing and a vertical bar with three spaces
\* otherwise; the prefix and the path of a call on the stack never change,
\* whatever is processed below it
C11_PrefixSegments ==
    /\ [](\A k \in 1..Len(visited) :
            LET v == visited[k]
                line == structure[k]
            IN  /\ Len(line) = 4 * v.depth + 4 + Len(v.name)
                /\ Drop(line, 4 * v.depth) = Connector(v.idx, v.count) \o v.name
                /\ {visited[m].depth : m \in Ancestors(k)} = 0..(v.depth - 1)
                /\ Cardinality(Ancestors(k)) = v.depth
                /\ \A m \in Ancestors(k) :
                      Segment(line, visited[m].depth + 1) =
                          IF visited[m].idx = visited[m].count - 1
                          THEN LastIndent ELSE MidIndent)
    /\ [][\A f \in 1..Len(stack) :
            (pc' = "walk" /\ Len(stack') >= f) =>
                /\ stack'[f].prefix = stack[f].prefix
                /\ stack'[f].path = stack[f].path]_vars

\* the walk of the single directory d is over: d was the last entry of the
\* root, so both its files stand behind four spaces
C11_Witness ==
    /\ pc = "save"
    /\ tree = TreeSameLocator
    /\ structure = <<LastConnector \o NameD,
                     LastIndent \o MidConnector \o NameUpperB,
                     LastIndent \o LastConnector \o NameA>>

\* the file of z/y is listed: z and y were not the last entries of their
\* listings, so its line starts with two bars
C11_WitnessNested ==
    /\ tree = TreeNested
    /\ Len(structure) >= 3
    /\ structure[3] = MidIndent \o MidIndent \o LastConnector \o NameA


\* C12: a get_file_content call for a locator that is in the cache returns
\* the cached value without raising, sends no request and leaves the cache
\* as it is; within a run an entry of the cache is never changed or removed;
\* hence every call after one that returned, for the same locator, sends
\* nothing and returns the same value
C12_CacheHitAndStability ==
    /\ [][(Len(calls') = Len(calls) + 1
            /\ DictHas(content_cache, Last(calls').url)) =>
            /\ ~Last(calls').raised
            /\ Last(calls').val = DictGet(content_cache, Last(calls').url)
            /\ network' = network
            /\ content_cache' = content_cache]_vars
    /\ [][run' = run => IsPrefix(content_cache, content_cache')]_vars
    /\ [](\A c, d \in 1..Len(calls) :
            (c < d /\ calls[c].url = calls[d].url /\ ~calls[c].raised) =>
                /\ DictHas(content_cache, calls[c].url)
                /\ DictGet(content_cache, calls[c].url) = calls[c].val
                /\ calls[d].hit
                /\ ~calls[d].raised
                /\ calls[d].val = calls[c].val)

\* both files of d were read: the first call fetched and decoded "hi", the
\* second one found the locator in the cache and sent nothing
C12_Witness ==
    /\ tree = TreeSameLocator
    /\ Len(calls) = 2
    /\ ~calls[1].hit
    /\ calls[1].resp = Response(200, TRUE, TRUE, B64Hi)
    /\ calls[2].hit
    /\ calls[2].val = calls[1].val
    /\ Cardinality(ContentRequests(Locator(1))) = 1
    /\ Len(content_cache) = 1


ListRequests(path) ==
    {i \in 1..Len(network) :
        network[i].kind = "list" /\ network[i].target = path}

ListingFailed ==
    /\ network # <<>>
    /\ Last(network).kind = "list"
    /\ RaisesForStatus(Last(network).status)

C13_WitnessSelfContained ==
    /\ pc = "walk"
    /\ tree = TreeSelfContained
    /\ Len(stack) = 3
    /\ Top.path = NameS \o <<Slash>> \o NameS


\* no two entries of one directory have the same name
UniqueNames(t) ==
    \A p \in DOMAIN t :
        \A i, j \in 1..Len(t[p]) : i # j => t[p][i].name # t[p][j].name

\* the position of the last "/" of a key, 0 when it has none
LastSlash(key) ==
    LET at == {i \in 1..Len(key) : key[i] = Slash}
    IN  IF at = {} THEN 0 ELSE CHOOSE i \in at : \A j \in at : j <= i

\* the directory and the name that a key names
ParentOf(key) == Take(key, LastSlash(key) - 1)

NameOf(key) == Drop(key, LastSlash(key))

\* the key names the i-th entry of directory p
Names(key, p, i) ==
    /\ key # <<>>
    /\ key[1] # Slash
    /\ ParentOf(key) = p
    /\ NameOf(key) = tree[p][i].name

\* C14: when analyze_repo returns for a tree whose names are unique within
\* each directory, structure holds exactly one line for every entry of the
\* tree; the keys of contents are the names of the entries that are no
\* directories, each joined to the names of its directories by "/" with no
\* leading slash: every such entry has exactly one key, also when its fetch
\* raised, and no key names a directory or anything else
C14_OneLinePerEntryOneKeyPerFile ==
    (pc = "save" /\ UniqueNames(tree)) =>
        /\ Len(structure) = TotalEntries(tree)
        /\ Len(visited) = Len(structure)
        /\ Len(contents) =
              Cardinality(UNION {{<<p, i>> :
                                    i \in {j \in 1..Len(tree[p]) :
                                             tree[p][j].type # "dir"}} :
                                 p \in DOMAIN tree})
        /\ \A p \in DOMAIN tree : \A i \in 1..Len(tree[p]) :
              /\ Cardinality({k \in 1..Len(visited) :
                                 /\ visited[k].path = p
                                 /\ visited[k].name = tree[p][i].name
                                 /\ visited[k].type = tree[p][i].type}) = 1
              /\ Cardinality({k \in 1..Len(contents) :
                                 Names(contents[k][1], p, i)}) =
                     IF tree[p][i].type = "dir" THEN 0 ELSE 1
        /\ \A k \in 1..Len(structure) :
              Drop(structure[k], Len(structure[k]) - Len(visited[k].name)) =
                  visited[k].name
        /\ \A k \in 1..Len(contents) :
              \E p \in DOMAIN tree : \E i \in 1..Len(tree[p]) :
                  /\ tree[p][i].type # "dir"
                  /\ Names(contents[k][1], p, i)
        /\ \A c \in 1..Len(calls) :
              calls[c].raised =>
                  \E k \in 1..Len(contents) :
                      /\ contents[k][1][1] # Slash
                      /\ NameOf(contents[k][1]) = visited[calls[c].line].name
                      /\ ParentOf(contents[k][1]) = visited[calls[c].line].path
                      /\ StartsWith(contents[k][2], ErrorReadingPrefix)

\* analyze_repo returned for the nested tree, the fetch of z/ab having
\* raised: six lines, and the four keys b, a, z/ab and z/y/a in the order of
\* the walk
C14_Witness ==
    /\ pc = "save"
    /\ tree = TreeNested
    /\ Len(structure) = 6
    /\ \E c \in 1..Len(calls) :
          calls[c].raised /\ visited[calls[c].line].name = NameAB
    /\ DictKeys(contents) = <<NameZ \o <<Slash>> \o NameY \o <<Slash>> \o NameA,
                              NameZ \o <<Slash>> \o NameAB, NameA, NameB>>


\* the call c sent a request that the remote answered with an error status
RemoteError(c) ==
    /\ ~calls[c].hit
    /\ RaisesForStatus(calls[c].resp.status)

\* C15: a get_file_content call whose request is answered with an error
\* status raises the text of the HTTP error and leaves the cache as it was;
\* nothing is stored for the locator, so the next call for the same locator
\* in the run sends a request again
C15_RemoteErrorStoresNothing ==
    /\ [][(/\ Len(calls') = Len(calls) + 1
            /\ ~DictHas(content_cache, Last(calls').url)
            /\ RaisesForStatus(Last(calls').resp.status)) =>
            /\ Last(calls').raised
            /\ Last(calls').val = HTTPErrorText(Last(calls').resp.status)
            /\ content_cache' = content_cache
            /\ network' = Append(network,
                                 [kind |-> "content",
                                  target |-> Last(calls').url,
                                  status |-> Last(calls').resp.status])]_vars
    /\ [](\A c, d \in 1..Len(calls) :
            (/\ c < d
             /\ calls[c].url = calls[d].url
             /\ RemoteError(c)
             /\ \A e \in (c + 1)..(d - 1) : calls[e].url # calls[c].url) =>
                /\ ~calls[d].hit
                /\ Cardinality(ContentRequests(calls[c].url)) >= 2)
    /\ [](\A c \in 1..Len(calls) :
            (RemoteError(c) /\ \A e \in (c + 1)..Len(calls) :
                                  calls[e].url # calls[c].url) =>
                ~DictHas(content_cache, calls[c].url))

\* the fetch of d/B was answered 404, the fetch of d/a, the same locator,
\* was sent again and answered with the text "hi"
C15_Witness ==
    /\ tree = TreeSameLocator
    /\ Len(calls) = 2
    /\ calls[1].resp.status = 404
    /\ calls[1].raised
    /\ ~calls[2].hit
    /\ calls[2].resp = Response(200, TRUE, TRUE, B64Hi)
    /\ Cardinality(ContentRequests(Locator(1))) = 2
    /\ content_cache = <<<<Locator(1), <<104, 105>>>>>>


\* the lines of the entries items[idx+1..] of directory path and of all that
\* is below them, for the tree as it is, whatever order a listing came in
RECURSIVE LinesFrom(_, _, _, _, _)
LinesFrom(t, path, prefix, items, idx) ==
    IF idx >= Len(items) THEN <<>>
    ELSE LET e == items[idx + 1]
             below == IF e.type = "dir"
                      THEN LinesFrom(t, FullPath(path, e.name),
                                     NewPrefix(prefix, idx, Len(items)),
                                     SortItems(t[FullPath(path, e.name)]), 0)
                      ELSE <<>>
         IN  <<StructurePath(prefix, idx, Len(items), e.name)>> \o below
             \o LinesFrom(t, path, prefix, items, idx + 1)

\* the full paths of the entries that are no directories, in that order
RECURSIVE KeysFrom(_, _, _, _)
KeysFrom(t, path, items, idx) ==
    IF idx >= Len(items) THEN <<>>
    ELSE LET e == items[idx + 1]
             here == IF e.type = "dir"
                     THEN KeysFrom(t, FullPath(path, e.name),
                                   SortItems(t[FullPath(path, e.name)]), 0)
                     ELSE <<FullPath(path, e.name)>>
         IN  here \o KeysFrom(t, path, items, idx + 1)

\* C16: the result does not depend on the order in which the remote reports
\* the entries of a directory: when analyze_repo returns for a tree with
\* unique names, whatever permutation each listing came in, structure is
\* the one sequence of lines that the tree determines, the keys of contents
\* are in the one order that the tree determines, and the value of the i-th
\* key is the outcome of the i-th fetch
C16_ResultIndependentOfReportedOrder ==
    /\ (pc = "save" /\ UniqueNames(tree)) =>
            /\ structure = LinesFrom(tree, <<>>, <<>>, SortItems(tree[<<>>]), 0)
            /\ DictKeys(contents) = KeysFrom(tree, <<>>, SortItems(tree[<<>>]), 0)
            /\ Len(calls) = Len(contents)
            /\ \A i \in 1..Len(contents) :
                  contents[i][2] = IF calls[i].raised
                                   THEN ErrorReadingPrefix \o calls[i].val
                                   ELSE calls[i].val
    /\ (pc = "walk" /\ UniqueNames(tree)) =>
            \A f \in 1..Len(stack) :
                stack[f].phase = "loop" =>
                    stack[f].items = SortItems(tree[stack[f].path])

\* analyze_repo returned for the single directory d, whose listing the
\* remote reported as a, B: the lines and the keys have B before a
C16_Witness ==
    /\ pc = "save"
    /\ tree = TreeSameLocator
    /\ listed = <<tree[NameD][2], tree[NameD][1]>>
    /\ listed[1].name = NameA
    /\ structure[2] = LastIndent \o MidConnector \o NameUpperB
    /\ DictKeys(contents) = <<NameD \o <<Slash>> \o NameUpperB,
                              NameD \o <<Slash>> \o NameA>>


\* C17: the history file is rewritten, with the new URL last, before the URL
\* is parsed and before any request is sent; from then on the file holds the
\* URL of the run, also when the URL is rejected or the analysis fails: no
\* later step of the run, and no later run before its own history step,
\* changes the file
C17_HistoryWrittenFirstAndKept ==
    /\ [][histFile' # histFile =>
            /\ pc = "history"
            /\ repo_url # <<>>
            /\ analyzer = NoAnalyzer /\ analyzer' = NoAnalyzer
            /\ network = <<>> /\ network' = <<>>
            /\ histFile'.kind = "list"
            /\ Last(histFile'.repos) = repo_url]_vars
    /\ []((pc \in {"construct", "analyze", "walk", "save"}
            \/ outcome \in {"invalid_url", "error", "saved"}) =>
            /\ repo_url # <<>>
            /\ histFile.kind = "list"
            /\ InList(histFile.repos, repo_url))
    /\ [][pc # "history" => histFile' = histFile]_vars

\* the analysis of a new URL failed at a listing: the file was written once
\* in this run and still ends with the URL
C17_Witness ==
    /\ pc = "exit"
    /\ outcome = "error"
    /\ ListingFailed
    /\ histWrites = 1
    /\ histFile.kind = "list"
    /\ Last(histFile.repos) = repo_url

\* the new URL was rejected by the parser: the file ends with it all the same
C17_WitnessInvalid ==
    /\ outcome = "invalid_url"
    /\ histWrites = 1
    /\ Last(histFile.repos) = UrlBad

====
